---- MODULE Spec2Model ----
(***************************************************************************)
(* Model of tictactoe.py: the Game turn loop (Game.play), the human input  *)
(* adapter (Player.move / Player.get_move), the rules (Game.check_win,     *)
(* Game.board_is_full, Game.update_board) and the exhaustive search        *)
(* (AI.minimax, AI.get_move_helper).                                       *)
(*                                                                         *)
(* The board is the Python list of 9 one-character strings, indexed 0..8.  *)
(* The search mutates that list in place and undoes its marks; it is       *)
(* modelled in state-passing style: every search operator takes the list   *)
(* and returns its result together with the list as the call leaves it.    *)
(***************************************************************************)
EXTENDS Integers, Sequences, FiniteSets, TLC

VARIABLES
    board,        \* Game.board
    moves_count,  \* Game.moves_count
    turn,         \* Game.turn
    playerO,      \* class of Game.playerO: "None", "Player" or "AI"
    who_won,      \* local who_won of Game.play ("unset" before the first check)
    pc,           \* position of Game.play: "welcome", "move", "over", "crashed"
    out,          \* the last message printed to the console
    first_move,   \* history: index of the first applied move, -1 before it
    x_optimal,    \* history: every X move after an opening at the centre against
                  \* the computer kept X's game value
    o_winning,    \* history: the computer has been to move on a board where
                  \* some empty cell scored +1
    fpc,          \* position of a direct call of one operation: "idle", "input", "returned"
    call,         \* the operation called directly and its arguments
    ret,          \* the value that call returned or the exception it raised
    board0        \* the board on entry to that call

vars == <<board, moves_count, turn, playerO, who_won, pc, out,
          first_move, x_optimal, o_winning, fpc, call, ret, board0>>

gameVars ==
    <<moves_count, playerO, who_won, pc, out, first_move, x_optimal, o_winning>>

callVars == <<fpc, call, ret, board0>>

\* Largest number of empty cells of a board handed directly to an operation.
MaxEmpty == 4

Cells == 0..8

Marks == {"X", "O"}

Boards == [Cells -> {"_", "X", "O"}]

EmptyCells(b) == {i \in Cells : b[i] = "_"}

Count(b, m) == Cardinality({i \in Cells : b[i] = m})

\* Game.__init__: the empty board.
EmptyBoard == [i \in Cells |-> "_"]

\* Game.win_conditions
win_conditions ==
    << <<0, 1, 2>>, <<3, 4, 5>>, <<6, 7, 8>>,
       <<0, 3, 6>>, <<1, 4, 7>>, <<2, 5, 8>>,
       <<0, 4, 8>>, <<2, 4, 6>> >>

\* The for loop of Game.check_win from the k-th win condition on.
RECURSIVE check_win_from(_, _, _)
check_win_from(conds, b, k) ==
    IF k > Len(conds) THEN "None"
    ELSE LET win_order == conds[k] IN
         IF /\ b[win_order[1]] = b[win_order[2]]
            /\ b[win_order[2]] = b[win_order[3]]
            /\ b[win_order[3]] = "X"
            THEN "X"
         ELSE IF /\ b[win_order[1]] = b[win_order[2]]
                 /\ b[win_order[2]] = b[win_order[3]]
                 /\ b[win_order[3]] = "O"
            THEN "O"
         ELSE check_win_from(conds, b, k + 1)

\* check_win with the last win condition (2, 4, 6) left out.
check_win_short(b) == check_win_from(SubSeq(win_conditions, 1, 7), b, 1)

\* Game.check_win
check_win(b) == check_win_from(win_conditions, b, 1)

\* Game.board_is_full
board_is_full(b) == \A index \in Cells : b[index] # "_"

\* AI.id as Game.welcome constructs it: AI(self, 'O').
ai_id == "O"

\* AI.opponent
opponent == IF ai_id = "O" THEN "X" ELSE "O"

\* Python values that are not always integers are tagged: None, an int, or
\* the exception a call raised.
None == <<"None">>

IntVal(i) == <<"int", i>>

IsInt(v) == Len(v) = 2 /\ v[1] = "int"

Max2(a, b) == IF a > b THEN a ELSE b

Min2(a, b) == IF a < b THEN a ELSE b

\* The mark the maximizer loop leaves in a cell after trying it, were the
\* undo of line 75 missing.
undo_missing(b, index) == b

\* board[index] = '_' : the undo of a hypothetical mark.
undo(b, index) == [b EXCEPT ![index] = "_"]

\* The minimizer's accumulator, were it to keep the larger score.
min_as_max(a, b) == Max2(a, b)

\* min(best_score, ...) of the minimizer loop.
min_score(a, b) == Min2(a, b)

\* Mark m holds all three cells of one of the win conditions.
HasLine(b, m) ==
    \E k \in 1..8 : \A j \in 1..3 : b[win_conditions[k][j]] = m

\* A board on which no further mark can change the outcome: a line is
\* complete or no cell is empty.
Terminal(b) == HasLine(b, "X") \/ HasLine(b, "O") \/ EmptyCells(b) = {}

\* What a call of minimax that returns score without recursing hands back:
\* the score, the list as it is, the depth of the call, and whether the
\* board it stopped on is terminal; sizes holds the depth plus the number of
\* empty cells of that board.
stop(b, depth, score) ==
    [ret |-> score, board |-> b, deepest |-> depth, stops_ok |-> Terminal(b),
     sizes |-> {depth + Cardinality(EmptyCells(b))}]

\* The record t a loop keeps of the calls it has made, with the call tree of
\* this iteration's recursive call r added; scores is the set of values r
\* returned to the loop.
seen(t, r) ==
    [deepest |-> Max2(t.deepest, r.deepest),
     stops_ok |-> t.stops_ok /\ r.stops_ok,
     sizes |-> t.sizes \cup r.sizes,
     scores |-> t.scores \cup {r.ret}]

\* That record before the first iteration of a loop run at depth.
none_seen(depth) ==
    [deepest |-> depth, stops_ok |-> TRUE, sizes |-> {}, scores |-> {}]

\* AI.minimax.  self.board and the argument board are the same list object
\* (AI.__init__ binds self.board to Game.board and AI.get_move passes it), so
\* the test of line 70 reads the list being searched.  check_win reads the
\* list without changing it, so its two calls of lines 60 and 62 return the
\* same value, named won here.  The result is
\* [ret |-> score, board |-> the list on return, deepest |-> the largest
\* depth argument of any call below and including this one, stops_ok |->
\* every call that returned without recursing did so on a terminal board,
\* sizes |-> for those calls, the depth plus the empty cells of the board].
RECURSIVE minimax(_, _, _)
RECURSIVE minimax_max(_, _, _, _, _)
RECURSIVE minimax_min(_, _, _, _, _)

\* minimax with a depth limit: below depth 3 the board is scored 0 unseen.
minimax_cut(b, depth, ai_turn) ==
    LET won == check_win(b) IN
    IF depth >= 3 THEN stop(b, depth, 0)
    ELSE IF won = opponent THEN stop(b, depth, -1)
    ELSE IF won # "None" THEN stop(b, depth, 1)
    ELSE IF board_is_full(b) THEN stop(b, depth, 0)
    ELSE IF ai_turn THEN minimax_max(b, depth, 0, -2, none_seen(depth))
    ELSE minimax_min(b, depth, 0, 2, none_seen(depth))

minimax(b, depth, ai_turn) ==
    LET won == check_win(b) IN
    IF won = opponent THEN stop(b, depth, -1)
    ELSE IF won # "None" THEN stop(b, depth, 1)
    ELSE IF board_is_full(b) THEN stop(b, depth, 0)
    ELSE IF ai_turn THEN minimax_max(b, depth, 0, -2, none_seen(depth))
    ELSE minimax_min(b, depth, 0, 2, none_seen(depth))

\* The maximizer loop of AI.minimax from index on, best_score so far.
minimax_max(b, depth, index, best_score, t) ==
    IF index = 9
       THEN [ret |-> best_score, board |-> b,
             deepest |-> t.deepest, stops_ok |-> t.stops_ok,
             sizes |-> t.sizes]
    ELSE IF b[index] # "_" THEN minimax_max(b, depth, index + 1, best_score, t)
    ELSE LET r == minimax([b EXCEPT ![index] = ai_id], depth + 1, FALSE)
         IN  minimax_max(undo(r.board, index), depth, index + 1,
                         Max2(best_score, r.ret), seen(t, r))

\* The minimizer loop of AI.minimax from index on, best_score so far.
minimax_min(b, depth, index, best_score, t) ==
    IF index = 9
       THEN [ret |-> best_score, board |-> b,
             deepest |-> t.deepest, stops_ok |-> t.stops_ok,
             sizes |-> t.sizes]
    ELSE IF b[index] # "_" THEN minimax_min(b, depth, index + 1, best_score, t)
    ELSE LET r == minimax([b EXCEPT ![index] = IF ai_id = "O" THEN "X" ELSE "O"],
                          depth + 1, TRUE)
         IN  minimax_min(undo(r.board, index), depth, index + 1,
                         min_score(best_score, r.ret), seen(t, r))

\* A comparison that also replaces the best move on an equal value.
better_or_equal(move_value, best_value) == move_value >= best_value

\* move_value > best_value of AI.get_move_helper.
better(move_value, best_value) == move_value > best_value

\* The loop of AI.get_move_helper from index on; in the result deepest is
\* -1 when no call of minimax was made and scores is the set of values
\* move_value took.
RECURSIVE get_move_loop(_, _, _, _, _)
get_move_loop(b, index, best_move, best_value, t) ==
    IF index = 9
       THEN [ret |-> best_move, board |-> b, deepest |-> t.deepest,
             stops_ok |-> t.stops_ok, sizes |-> t.sizes,
             scores |-> t.scores]
    ELSE IF b[index] # "_"
       THEN get_move_loop(b, index + 1, best_move, best_value, t)
    ELSE LET r == minimax([b EXCEPT ![index] = ai_id], 0, FALSE)
             restored == undo(r.board, index)
         IN  IF better(r.ret, best_value)
                THEN get_move_loop(restored, index + 1, IntVal(index), r.ret,
                                   seen(t, r))
                ELSE get_move_loop(restored, index + 1, best_move, best_value,
                                   seen(t, r))

\* get_move_helper starting from best_value = 0.
get_move_helper_from_zero(b) == get_move_loop(b, 0, None, 0, none_seen(-1))

\* AI.get_move_helper: best_move = None, best_value = -1, then the loop.
get_move_helper(b) == get_move_loop(b, 0, None, -1, none_seen(-1))

\* update_board without the flip of the turn of line 139.
update_board_same_turn(b, t, location) ==
    IF ~IsInt(location)
       THEN [board |-> b, turn |-> t, raised |-> <<"TypeError">>]
    ELSE IF location[2] \in 0..8
       THEN [board |-> [b EXCEPT ![location[2]] = t], turn |-> t, raised |-> None]
    ELSE IF location[2] \in -9..-1
       THEN [board |-> [b EXCEPT ![location[2] + 9] = t], turn |-> t,
             raised |-> None]
    ELSE [board |-> b, turn |-> t, raised |-> <<"IndexError">>]

\* Game.update_board: list assignment at location (a negative index counts
\* from the end, an index outside -9..8 raises IndexError and None raises
\* TypeError, both before anything is assigned), then the turn flips.  The
\* turn parameter is not used.
update_board(b, t, location) ==
    IF ~IsInt(location)
       THEN [board |-> b, turn |-> t, raised |-> <<"TypeError">>]
    ELSE IF location[2] \in 0..8
       THEN [board |-> [b EXCEPT ![location[2]] = t],
             turn |-> IF t = "X" THEN "O" ELSE "X", raised |-> None]
    ELSE IF location[2] \in -9..-1
       THEN [board |-> [b EXCEPT ![location[2] + 9] = t],
             turn |-> IF t = "X" THEN "O" ELSE "X", raised |-> None]
    ELSE [board |-> b, turn |-> t, raised |-> <<"IndexError">>]

(***************************************************************************)
(* Console input.  A line typed at the move prompt is a sequence of        *)
(* characters; int() strips surrounding blanks, takes an optional sign and *)
(* then needs one or more decimal digits, and raises ValueError otherwise. *)
(***************************************************************************)
DigitChars == <<"0", "1", "2", "3", "4", "5", "6", "7", "8", "9">>

IsDigit(c) == \E k \in 1..10 : DigitChars[k] = c

DigitVal(c) == (CHOOSE k \in 1..10 : DigitChars[k] = c) - 1

RECURSIVE lstrip(_)
lstrip(s) == IF Len(s) > 0 /\ Head(s) = " " THEN lstrip(Tail(s)) ELSE s

RECURSIVE rstrip(_)
rstrip(s) ==
    IF Len(s) > 0 /\ s[Len(s)] = " " THEN rstrip(SubSeq(s, 1, Len(s) - 1)) ELSE s

RECURSIVE digits_value(_, _)
digits_value(s, acc) ==
    IF s = <<>> THEN acc ELSE digits_value(Tail(s), 10 * acc + DigitVal(Head(s)))

\* The builtin int() applied to the line read by input().
int_of(line) ==
    LET s == rstrip(lstrip(line))
        signed == Len(s) > 0 /\ Head(s) \in {"-", "+"}
        body == IF signed THEN Tail(s) ELSE s
    IN  IF body = <<>> \/ \E k \in 1..Len(body) : ~IsDigit(body[k])
           THEN <<"ValueError">>
        ELSE IF signed /\ Head(s) = "-"
           THEN IntVal(0 - digits_value(body, 0))
        ELSE IntVal(digits_value(body, 0))

\* The lines a human types at the move prompt.
InputLines ==
    { <<"0">>, <<"1">>, <<"2">>, <<"3">>, <<"4">>, <<"5">>, <<"6">>, <<"7">>,
      <<"8">>, <<"9">>, <<"-", "1">>, <<"1", "0">>, <<" ", "4">>, <<"+", "2">>,
      <<"x">>, <<>>, <<"-">>, <<"4", ".", "0">> }

\* The lines a human types at the opponent prompt of Game.welcome.
OpponentLines == {"p", "c", "x", ""}

\* get_move without the test that the spot is free.
get_move_unchecked(b, line) ==
    LET spot == int_of(line) IN
    IF ~IsInt(spot) THEN [ret |-> -1, out |-> "Error. Invalid move."]
    ELSE IF spot[2] < 0 \/ spot[2] > 8
       THEN [ret |-> -1, out |-> "Error. Invalid move."]
    ELSE [ret |-> spot[2], out |-> ""]

\* Player.get_move on the line typed: [ret |-> spot or -1, out |-> message].
get_move(b, line) ==
    LET spot == int_of(line) IN
    IF ~IsInt(spot) THEN [ret |-> -1, out |-> "Error. Invalid move."]
    ELSE IF spot[2] < 0 \/ spot[2] > 8
       THEN [ret |-> -1, out |-> "Error. Invalid move."]
    ELSE IF b[spot[2]] # "_" THEN [ret |-> -1, out |-> "Error. Spot is taken."]
    ELSE [ret |-> spot[2], out |-> ""]

\* game_over comparing who_won with '0' (zero) in its second test.
game_over_zero(w) ==
    IF w = "X" THEN "Player X won! Thanks for playing!"
    ELSE IF w = "0" THEN "Player O won! Thanks for playing!"
    ELSE "It was a tie! Thanks for playing!"

\* Game.game_over: the message for who_won.
game_over(w) ==
    IF w = "X" THEN "Player X won! Thanks for playing!"
    ELSE IF w = "O" THEN "Player O won! Thanks for playing!"
    ELSE "It was a tie! Thanks for playing!"

(***************************************************************************)
(* The game value of a position by the textbook definition, from O's point *)
(* of view, with mover to move; used to say what an optimal move is.       *)
(***************************************************************************)
Other(m) == IF m = "X" THEN "O" ELSE "X"

RECURSIVE GameValue(_, _)
GameValue(b, mover) ==
    IF HasLine(b, "X") THEN -1
    ELSE IF HasLine(b, "O") THEN 1
    ELSE IF EmptyCells(b) = {} THEN 0
    ELSE LET vals == {GameValue([b EXCEPT ![i] = mover], Other(mover)) :
                         i \in EmptyCells(b)}
         IN  IF mover = "O" THEN CHOOSE v \in vals : \A w \in vals : w <= v
             ELSE CHOOSE v \in vals : \A w \in vals : v <= w

(***************************************************************************)
(* The game: Game.__init__, Game.welcome and the loop of Game.play.        *)
(***************************************************************************)
Init ==
    /\ board = EmptyBoard
    /\ moves_count = 0
    /\ turn = "X"
    /\ playerO = "None"
    /\ who_won = "unset"
    /\ pc = "welcome"
    /\ out = "Welcome to Tic-Tac-Toe!"
    /\ first_move = -1
    /\ x_optimal = TRUE
    /\ o_winning = FALSE
    /\ fpc = "idle"
    /\ call = <<"none">>
    /\ ret = None
    /\ board0 = EmptyBoard

\* Game.welcome, one line read at its prompt.
welcome(type_of_opponent) ==
    /\ pc = "welcome"
    /\ IF type_of_opponent = "p"
          THEN playerO' = "Player" /\ pc' = "move" /\ out' = ""
       ELSE IF type_of_opponent = "c"
          THEN playerO' = "AI" /\ pc' = "move" /\ out' = ""
       ELSE playerO' = playerO /\ pc' = pc /\ out' = "Error. Invalid input."
    /\ UNCHANGED <<board, moves_count, turn, who_won, first_move, x_optimal,
                   o_winning, callVars>>

\* The loop test of Game.play with the move count forgotten.
loop_ends_on_win(w, n) == w # "None"

\* who_won is not 'None' or self.moves_count==9 : the loop of Game.play ends.
loop_ends(w, n) == w # "None" \/ n = 9

\* The rest of one iteration of the loop of Game.play once the player's
\* move() has returned location, the board being b: update_board,
\* moves_count += 1, check_win, the loop test, and game_over on leaving.
get_move_and_update_board(b, location) ==
    LET u == update_board(b, turn, location) IN
    IF u.raised # None
       THEN /\ pc' = "crashed"
            /\ out' = u.raised[1]
            /\ board' = u.board
            /\ UNCHANGED <<turn, moves_count, who_won>>
       ELSE /\ board' = u.board
            /\ turn' = u.turn
            /\ moves_count' = moves_count + 1
            /\ who_won' = check_win(u.board)
            /\ IF loop_ends(who_won', moves_count')
                  THEN pc' = "over" /\ out' = game_over(who_won')
                  ELSE pc' = "move" /\ out' = ""

\* A human's turn, one line read at the prompt of Player.get_move: a
\* rejected line prints its message and Player.move prompts again; an
\* accepted one is returned to Game.get_move_and_update_board.
PlayerTurn(line) ==
    /\ pc = "move"
    /\ turn = "X" \/ playerO = "Player"
    /\ LET g == get_move(board, line) IN
       IF g.ret = -1
          THEN /\ out' = g.out
               /\ UNCHANGED <<board, moves_count, turn, who_won, pc,
                              first_move, x_optimal>>
          ELSE /\ get_move_and_update_board(board, IntVal(g.ret))
               /\ first_move' = IF moves_count = 0 THEN g.ret ELSE first_move
               /\ x_optimal' =
                     IF playerO = "AI" /\ first_move = 4
                        THEN /\ x_optimal
                             /\ GameValue([board EXCEPT ![g.ret] = "X"], "O")
                                   = GameValue(board, "X")
                        ELSE x_optimal
    /\ UNCHANGED <<playerO, o_winning, callVars>>

\* The score get_move_helper gives cell i of board b: move_value of line 106.
Score(b, i) == minimax([b EXCEPT ![i] = ai_id], 0, FALSE).ret

\* The computer's turn: Player.move calls AI.get_move, which searches
\* Game.board in place; a result other than -1 is returned to the loop.
AITurn ==
    /\ pc = "move"
    /\ turn = "O" /\ playerO = "AI"
    /\ \E s \in {get_move_helper(board)} :
          /\ get_move_and_update_board(s.board, s.ret)
          /\ o_winning' = (o_winning \/ 1 \in s.scores)
    /\ UNCHANGED <<playerO, first_move, x_optimal, callVars>>

Next ==
    \/ \E type_of_opponent \in OpponentLines : welcome(type_of_opponent)
    \/ \E line \in InputLines : PlayerTurn(line)
    \/ AITurn

Spec == Init /\ [][Next]_vars

\* A human answers the opponent prompt with one of the two accepted tokens.
OpponentChosen == \E type_of_opponent \in {"p", "c"} : welcome(type_of_opponent)

\* What Game.game_over and the prompts print.
Messages ==
    {"", "Error. Invalid move.", "Error. Spot is taken.",
     game_over("X"), game_over("O"), game_over("None")}

\* One iteration of the loop of Game.play completes: the player whose turn
\* it is, human or computer, has its mark written into an empty cell and
\* the move is counted.  Which cell, and the outcome, are left open here;
\* of the steps of the game exactly those of PlayerTurn with an accepted
\* line and of AITurn with a move applied are steps of this kind.
MoveApplied ==
    /\ pc = "move"
    /\ \E i \in EmptyCells(board) : board' = [board EXCEPT ![i] = turn]
    /\ moves_count' = moves_count + 1
    /\ turn' = Other(turn)
    /\ pc' \in {"move", "over"}
    /\ who_won' \in {"None", "X", "O"}
    /\ out' \in Messages
    /\ first_move' \in -1..8
    /\ x_optimal' \in BOOLEAN
    /\ o_winning' \in BOOLEAN
    /\ UNCHANGED <<playerO, callVars>>

\* The game with every prompt eventually answered with an accepted line;
\* the computer's turn is a synchronous call inside the loop, so it too is
\* eventually taken.
SpecLive ==
    /\ Spec
    /\ WF_vars(OpponentChosen)
    /\ WF_vars(MoveApplied)

(***************************************************************************)
(* Direct calls of single operations on a given board.                     *)
(***************************************************************************)
\* The board X X _ / O O _ / _ _ _ on which the computer is to find its move.
Board7 ==
    [i \in Cells |-> <<"X", "X", "_", "O", "O", "_", "_", "_", "_">>[i + 1]]

\* The boards handed directly to an operation.
InputBoards ==
    {b \in Boards : Cardinality(EmptyCells(b)) <= MaxEmpty} \cup {Board7}

Locations == -1..9

InitFn ==
    /\ board \in InputBoards
    /\ turn = (IF Count(board, "X") <= Count(board, "O") THEN "X" ELSE "O")
    /\ moves_count = 0
    /\ playerO = "AI"
    /\ who_won = "unset"
    /\ pc = "call"
    /\ out = ""
    /\ first_move = -1
    /\ x_optimal = TRUE
    /\ o_winning = FALSE
    /\ fpc = "input"
    /\ call = <<"none">>
    /\ ret = None
    /\ board0 = board

CallGetMoveHelper ==
    /\ fpc = "input"
    /\ \E r \in {get_move_helper(board)} :
         /\ ret' = r.ret
         /\ board' = r.board
    /\ call' = <<"get_move_helper">>
    /\ fpc' = "returned"
    /\ UNCHANGED <<turn, board0, gameVars>>

CallMinimax(ai_turn) ==
    /\ fpc = "input"
    /\ \E r \in {minimax(board, 0, ai_turn)} :
         /\ ret' = IntVal(r.ret)
         /\ board' = r.board
    /\ call' = <<"minimax", ai_turn>>
    /\ fpc' = "returned"
    /\ UNCHANGED <<turn, board0, gameVars>>

CallUpdateBoard(location) ==
    /\ fpc = "input"
    /\ LET r == update_board(board, turn, IntVal(location)) IN
         /\ ret' = r.raised
         /\ board' = r.board
         /\ turn' = r.turn
    /\ call' = <<"update_board", location>>
    /\ fpc' = "returned"
    /\ UNCHANGED <<board0, gameVars>>

NextFn ==
    \/ CallGetMoveHelper
    \/ \E ai_turn \in BOOLEAN : CallMinimax(ai_turn)
    \/ \E location \in Locations : CallUpdateBoard(location)

SpecFn == InitFn /\ [][NextFn]_vars

(***************************************************************************)
(* Properties.                                                             *)
(***************************************************************************)
NoLine(b) == ~HasLine(b, "X") /\ ~HasLine(b, "O")

\* A board that alternate play starting with X reaches with no line
\* completed, at least one empty cell and O, the computer, to move.
ComputerToMove(b) ==
    /\ NoLine(b)
    /\ EmptyCells(b) # {}
    /\ Count(b, "X") = Count(b, "O") + 1

Returned(name) == fpc = "returned" /\ call[1] = name

\* C1: against the computer, whatever legal moves X plays, the board never
\* holds a completed line of X and the game ends won by O or drawn.
C1_ComputerNeverLoses ==
    playerO = "AI" =>
        /\ ~HasLine(board, "X")
        /\ pc = "over" =>
              \/ who_won = "O" /\ HasLine(board, "O")
              \/ who_won = "None" /\ NoLine(board) /\ EmptyCells(board) = {}

C1_Witness ==
    playerO = "AI" /\ pc = "over" /\ who_won = "O" /\ moves_count = 6

\* C2: on a board of legal play with no completed line, an empty cell and
\* the computer to move, get_move_helper returns the index of an empty cell.
C2_ReturnsEmptyCell ==
    (Returned("get_move_helper") /\ ComputerToMove(board0)) =>
        /\ IsInt(ret)
        /\ ret[2] \in Cells
        /\ board0[ret[2]] = "_"

\* The mark update_board writes on a board given to it directly.
MarkToPlace(b) == IF Count(b, "X") <= Count(b, "O") THEN "X" ELSE "O"

\* C3: update_board fails and leaves the board unchanged for index -1, for
\* index 9 and for an occupied cell; for an empty cell in 0..8 it succeeds
\* and changes exactly that cell to the mark.
C3_ApplyMoveValidates ==
    Returned("update_board") =>
        LET location == call[2] IN
        IF location \in Cells /\ board0[location] = "_"
           THEN /\ ret = None
                /\ board = [board0 EXCEPT ![location] = MarkToPlace(board0)]
           ELSE /\ ret # None
                /\ board = board0

DrawBoard ==
    [i \in Cells |-> <<"X", "O", "X", "X", "O", "O", "O", "X", "X">>[i + 1]]

\* C4: on every board of the game check_win returns a mark exactly when one
\* of the 8 lines holds three of that mark, and check_win returning 'None'
\* with board_is_full true (a draw) happens exactly when all 9 cells hold a
\* mark and no line is complete; the board X O X / X O O / O X X is a draw.
C4_OutcomeMatchesLines ==
    /\ \A m \in Marks : check_win(board) = m <=> HasLine(board, m)
    /\ (check_win(board) = "None" /\ board_is_full(board))
          <=> (EmptyCells(board) = {} /\ NoLine(board))
    /\ check_win(DrawBoard) = "None" /\ board_is_full(DrawBoard)

C4_Witness == board = DrawBoard /\ pc = "over" /\ who_won = "None"

\* C5: on a board with exactly one empty cell and no completed line
\* get_move_helper returns that cell.
C5_LastCell ==
    (Returned("get_move_helper") /\ NoLine(board0)
        /\ Cardinality(EmptyCells(board0)) = 1) =>
        \E i \in EmptyCells(board0) : ret = IntVal(i)

C5_Witness ==
    /\ Returned("get_move_helper")
    /\ NoLine(board0)
    /\ Cardinality(EmptyCells(board0)) = 1
    /\ Count(board0, "X") = 4
    /\ IsInt(ret)

\* C6: when get_move_helper or minimax returns, every cell of the board
\* holds the value it held when the call was made.
C6_SearchRestoresBoard ==
    (Returned("get_move_helper") \/ Returned("minimax")) => board = board0

C6_Witness ==
    /\ Returned("minimax")
    /\ board = board0
    /\ NoLine(board0)
    /\ Cardinality(EmptyCells(board0)) >= 4

\* C7: on the board X X _ / O O _ / _ _ _ get_move_helper returns index 2.
C7_BlocksTopRow ==
    (Returned("get_move_helper") /\ board0 = Board7) => ret = IntVal(2)

C7_Witness == Returned("get_move_helper") /\ board0 = Board7 /\ IsInt(ret)

\* C8: a game against the computer that X opens at the centre and in which
\* every later X move keeps X's game value ends in a draw: the board is full
\* and no line is complete.
C8_CentreOpeningDraw ==
    (playerO = "AI" /\ first_move = 4 /\ x_optimal /\ pc = "over") =>
        /\ who_won = "None"
        /\ EmptyCells(board) = {}
        /\ NoLine(board)

C8_Witness ==
    /\ playerO = "AI" /\ first_move = 4 /\ x_optimal /\ pc = "over"
    /\ moves_count = 9

\* C9: with the computer to move get_move_helper returns the lowest index
\* among the empty cells whose score is the highest of all empty cells.
C9_FirstBestCell ==
    (Returned("get_move_helper") /\ ComputerToMove(board0)) =>
        LET best == {i \in EmptyCells(board0) :
                        \A j \in EmptyCells(board0) :
                            Score(board0, j) <= Score(board0, i)}
        IN  \E i \in best : ret = IntVal(i) /\ \A j \in best : i <= j

\* What each line of InputLines denotes: an integer, or no integer at all.
NonIntegerLines == { <<"x">>, <<>>, <<"-">>, <<"4", ".", "0">> }

LineValue(line) ==
    IF line = <<"-", "1">> THEN -1
    ELSE IF line = <<"1", "0">> THEN 10
    ELSE IF line = <<" ", "4">> THEN 4
    ELSE IF line = <<"+", "2">> THEN 2
    ELSE CHOOSE d \in 0..9 : line = <<DigitChars[d + 1]>>

MustReject(b, line) ==
    \/ line \in NonIntegerLines
    \/ LineValue(line) \notin Cells
    \/ b[LineValue(line)] # "_"

HumanToMove == pc = "move" /\ (turn = "X" \/ playerO = "Player")

\* C10: at a human's prompt get_move returns -1 for a line that is no
\* integer, an integer outside 0..8 or the index of an occupied cell, and
\* otherwise the index typed; a step at the prompt either leaves the board,
\* the turn, the move counter and the prompt as they were, printing an error
\* message, or marks one empty cell in 0..8 for the player whose turn it is.
C10_HumanInputValidated ==
    /\ [](HumanToMove =>
            \A line \in InputLines :
                IF MustReject(board, line)
                   THEN get_move(board, line).ret = -1
                   ELSE get_move(board, line).ret = LineValue(line))
    /\ [][HumanToMove =>
            \/ /\ UNCHANGED <<board, turn, moves_count, pc, who_won, playerO>>
               /\ out' \in {"Error. Invalid move.", "Error. Spot is taken."}
            \/ \E spot \in EmptyCells(board) :
                  /\ board' = [board EXCEPT ![spot] = turn]
                  /\ moves_count' = moves_count + 1
                  /\ turn' = Other(turn)]_vars

C10_Witness ==
    pc = "move" /\ out = "Error. Spot is taken." /\ moves_count = 3

AIToMove == pc = "move" /\ turn = "O" /\ playerO = "AI"

\* C11: the loop never fails on a move it was handed; whenever the computer
\* is to move, the search hands back the index of an empty cell, not None;
\* and every step that applies a move marks one cell in 0..8 that was empty,
\* leaving the other cells as they were.
C11_OnlyValidMovesApplied ==
    /\ [](pc # "crashed")
    /\ [](AIToMove =>
            LET move == get_move_helper(board).ret IN
            IsInt(move) /\ move[2] \in Cells /\ board[move[2]] = "_")
    /\ [][(board' # board \/ moves_count' # moves_count) =>
            \E spot \in Cells :
                /\ board[spot] = "_"
                /\ board'[spot] \in Marks
                /\ \A i \in Cells \ {spot} : board'[i] = board[i]]_vars

C11_Witness ==
    playerO = "AI" /\ pc = "move" /\ turn = "X" /\ moves_count = 8

\* A board that alternate play starting with X and stopping at the first
\* completed line reaches.
LegalBoard(b) ==
    /\ Count(b, "X") - Count(b, "O") \in {0, 1}
    /\ HasLine(b, "X") => ~HasLine(b, "O") /\ Count(b, "X") = Count(b, "O") + 1
    /\ HasLine(b, "O") => Count(b, "X") = Count(b, "O")

\* C12: on a board of legal play, called for the side that is to move,
\* minimax returns the game value of the position from the computer's point
\* of view (-1 for a line of the opponent, else +1 for a line of the
\* computer, else 0 on a full board, else the maximum of the values after
\* each computer move or the minimum after each opponent move), a number in
\* {-1, 0, 1}.
C12_MinimaxIsGameValue ==
    (/\ Returned("minimax")
     /\ LegalBoard(board0)
     /\ call[2] = (Count(board0, "X") = Count(board0, "O") + 1)) =>
        /\ ret[2] \in {-1, 0, 1}
        /\ ret[2] = GameValue(board0, IF call[2] THEN "O" ELSE "X")

C12_Witness ==
    /\ Returned("minimax")
    /\ LegalBoard(board0)
    /\ NoLine(board0)
    /\ call[2] = (Count(board0, "X") = Count(board0, "O") + 1)
    /\ Cardinality(EmptyCells(board0)) = 4
    /\ ret = IntVal(1)

\* C13: in every state of the game each cell holds '_', 'X' or 'O', and
\* the board holds as many X as O or one X more.
C13_CellsAndAlternation ==
    /\ \A i \in Cells : board[i] \in {"_", "X", "O"}
    /\ DOMAIN board = Cells
    /\ Count(board, "X") - Count(board, "O") \in {0, 1}

C13_Witness ==
    /\ playerO = "Player" /\ pc = "move"
    /\ Count(board, "X") = 3 /\ Count(board, "O") = 2

\* C14: the board starts with all 9 cells empty; a step that counts a move
\* changes exactly one cell, from '_' to the mark of the player whose turn
\* it was; no other step changes the board; and a cell that holds a mark
\* keeps it in every later state.
C14_OneCellPerTurn ==
    /\ board = EmptyBoard
    /\ [][IF moves_count' = moves_count + 1
             THEN \E i \in Cells :
                     /\ board[i] = "_"
                     /\ board' = [board EXCEPT ![i] = turn]
             ELSE board' = board]_vars
    /\ [][\A i \in Cells : board[i] # "_" => board'[i] = board[i]]_vars

C14_Witness ==
    playerO = "Player" /\ pc = "over" /\ moves_count = 7 /\ who_won = "X"

\* C15: a move is requested only on a board with no completed line and an
\* empty cell; after a step that counts a move the game is over exactly when
\* the new board has a completed line or the counter is 9, and otherwise the
\* other player is to move; once the game is over no step follows.
C15_OverExactlyOnLineOrNine ==
    /\ [](pc = "move" => NoLine(board) /\ EmptyCells(board) # {})
    /\ [][moves_count' = moves_count + 1 =>
            IF ~NoLine(board') \/ moves_count' = 9
               THEN pc' = "over"
               ELSE pc' = "move" /\ turn' = Other(turn)]_vars
    /\ [][pc # "over"]_vars

C15_Witness ==
    playerO = "Player" /\ pc = "over" /\ moves_count = 5

\* C16: when the game is over the message printed names X as the winner
\* exactly when the final board has a completed line of X, and O likewise,
\* also when the line was completed by the ninth move; the tie message is
\* printed only when the counter is 9 and the board has no completed line.
C16_AnnouncedOutcome ==
    pc = "over" =>
        /\ out = "Player X won! Thanks for playing!" <=> HasLine(board, "X")
        /\ out = "Player O won! Thanks for playing!" <=> HasLine(board, "O")
        /\ out = "It was a tie! Thanks for playing!" =>
              moves_count = 9 /\ NoLine(board)
        /\ out \in {"Player X won! Thanks for playing!",
                    "Player O won! Thanks for playing!",
                    "It was a tie! Thanks for playing!"}

C16_Witness ==
    /\ pc = "over" /\ moves_count = 9 /\ HasLine(board, "X")
    /\ out = "Player X won! Thanks for playing!"

\* C17: when every prompt is eventually answered with a valid line the game
\* reaches the over position and stays there, and the move counter never
\* exceeds 9.
C17_GameEnds ==
    /\ <>[](pc = "over")
    /\ [](moves_count <= 9)

C17_Witness ==
    playerO = "AI" /\ pc = "over" /\ moves_count = 9 /\ who_won = "None"

\* C18: whenever the computer is to move its search returns; every call in
\* it that returns without recursing does so on a board with a completed
\* line or no empty cell; every such board, reached through depth + 1
\* placements, has exactly depth + 1 fewer empty cells than the board the
\* search started from (each call works on one empty cell fewer than its
\* caller); and the placements nested in one search never exceed the empty
\* cells of the board, hence never 9.
C18_SearchTerminates ==
    AIToMove =>
        LET s == get_move_helper(board)
            empty == Cardinality(EmptyCells(board))
        IN  /\ s.stops_ok
            /\ s.sizes = {empty - 1}
            /\ s.deepest + 1 <= empty
            /\ s.deepest + 1 <= 9

\* The computer searches the board after the opening move, with 8 empty
\* cells, and a line of play in the search fills the board.
C18_Witness ==
    /\ AIToMove /\ moves_count = 1
    /\ get_move_helper(board).deepest + 1 = 8

\* C19: in every state of the game the move counter equals the number of
\* marked cells and the turn is X exactly when the counter is even, so the
\* counter is 9 exactly when the board is full.
C19_CounterIsMarkedCells ==
    /\ moves_count = 9 - Cardinality(EmptyCells(board))
    /\ moves_count = Count(board, "X") + Count(board, "O")
    /\ (turn = "X") <=> (moves_count % 2 = 0)
    /\ (moves_count = 9) <=> board_is_full(board)

\* A game between two humans ended by the ninth move on a full board.
C19_Witness ==
    /\ playerO = "Player" /\ pc = "over"
    /\ moves_count = 9 /\ board_is_full(board) /\ turn = "O"

\* C20: o_winning records that at some turn of the computer an empty cell
\* of the board evaluated to +1.  From then on the game never fails, is not
\* over other than by a win of O, and, every prompt being answered, does end
\* with O the winner on a board with a completed line of O.
C20_WonPositionIsWon ==
    /\ [](o_winning => pc # "crashed" /\ (pc = "over" => who_won = "O"))
    /\ o_winning ~> (pc = "over" /\ who_won = "O" /\ HasLine(board, "O"))

\* The computer had a winning cell and the game has ended with its win.
C20_Witness ==
    /\ playerO = "AI" /\ o_winning
    /\ pc = "over" /\ who_won = "O" /\ HasLine(board, "O")
====
